---- MODULE Spec2Model ----
(***************************************************************************)
(* Casting Agency API (src/app.py): eight guarded entity operations over   *)
(* a store of actors, movies and casting links.  Each action below is one  *)
(* whole request: the requires_auth guard, the handler body with every     *)
(* store call it makes, and the error handler that shapes the response.    *)
(* auth.py and models.py are not part of the available source; the guard   *)
(* and the store methods are modelled from the written specification.      *)
(***************************************************************************)
EXTENDS Integers, Sequences, FiniteSets, TLC

VARIABLES
    actors,        \* committed Actor rows: id -> [name, age, gender]
    movies,        \* committed Movie rows: id -> [title, release_date]
    casted,        \* committed CastedIn rows: set of <<actor id, movie id>>
    actor_seq,     \* next id the store assigns to an Actor
    movie_seq,     \* next id the store assigns to a Movie
    req,           \* the last request: [op, token, id, body, fault]
    resp,          \* the response it was answered with
    prev,          \* the committed store as it was before the last request
    entered,       \* the handler body of the last request ran
    accessed       \* the last request read or wrote the entity store

vars == <<actors, movies, casted, actor_seq, movie_seq, req, resp, prev, entered, accessed>>

(* Creates are disabled once this many entities have been created. *)
MaxCreated == 1

----------------------------------------------------------------------------
(* Text.  A string that the code takes apart is a sequence of characters.   *)

Digits == <<"0", "1", "2", "3", "4", "5", "6", "7", "8", "9">>

IsDigit(c) == \E i \in 1..10 : Digits[i] = c

DigitVal(c) == (CHOOSE i \in 1..10 : Digits[i] = c) - 1

RECURSIVE split(_, _)
(* str.split(sep): the pieces between separators, empty pieces kept *)
split(s, sep) ==
    IF \A i \in 1..Len(s) : s[i] # sep
    THEN <<s>>
    ELSE LET k == CHOOSE i \in 1..Len(s) :
                    s[i] = sep /\ \A j \in 1..(i - 1) : s[j] # sep
         IN <<SubSeq(s, 1, k - 1)>> \o split(SubSeq(s, k + 1, Len(s)), sep)

RECURSIVE digits_value(_)
digits_value(s) ==
    IF s = <<>> THEN 0
    ELSE 10 * digits_value(SubSeq(s, 1, Len(s) - 1)) + DigitVal(s[Len(s)])

(* int(val): ValueError on an empty piece or a piece with a non-digit *)
int(s) ==
    IF s # <<>> /\ \A i \in 1..Len(s) : IsDigit(s[i])
    THEN [ok |-> TRUE, value |-> digits_value(s)]
    ELSE [ok |-> FALSE, value |-> 0]

IsLeap(y) == (y % 4 = 0 /\ y % 100 # 0) \/ y % 400 = 0

DaysInMonth(y, m) ==
    IF m = 2 THEN (IF IsLeap(y) THEN 29 ELSE 28)
    ELSE IF m \in {4, 6, 9, 11} THEN 30 ELSE 31

(* datetime.datetime of the unpacked date_arr: year, month, day required; hour, minute,  *)
(* second, microsecond optional; an eighth positional int is no tzinfo.    *)
datetime(arr) ==
    LET n == Len(arr)
        at(i, dflt) == IF i <= n THEN arr[i] ELSE dflt
        good == /\ n >= 3 /\ n <= 7
                /\ arr[1] >= 1 /\ arr[1] <= 9999
                /\ arr[2] >= 1 /\ arr[2] <= 12
                /\ arr[3] >= 1 /\ arr[3] <= DaysInMonth(arr[1], arr[2])
                /\ at(4, 0) >= 0 /\ at(4, 0) <= 23
                /\ at(5, 0) >= 0 /\ at(5, 0) <= 59
                /\ at(6, 0) >= 0 /\ at(6, 0) <= 59
                /\ at(7, 0) >= 0 /\ at(7, 0) <= 999999
    IN IF good
       THEN [ok |-> TRUE,
             value |-> [year |-> arr[1], month |-> arr[2], day |-> arr[3],
                        hour |-> at(4, 0), minute |-> at(5, 0),
                        second |-> at(6, 0), microsecond |-> at(7, 0)]]
       ELSE [ok |-> FALSE,
             value |-> [year |-> 0, month |-> 0, day |-> 0, hour |-> 0,
                        minute |-> 0, second |-> 0, microsecond |-> 0]]

(* A plausible slip: the components handed over as year, day, month. *)
parse_release_date_swapped(s) ==
    LET parts == split(s, "-")
        ints == [i \in 1..Len(parts) |-> int(parts[i])]
    IN IF \E i \in 1..Len(parts) : ~ints[i].ok
       THEN datetime(<<>>)
       ELSE LET a == [i \in 1..Len(parts) |-> ints[i].value]
            IN IF Len(a) >= 3
               THEN datetime([i \in 1..Len(a) |->
                                 IF i = 2 THEN a[3] ELSE IF i = 3 THEN a[2] ELSE a[i]])
               ELSE datetime(a)

(* [int(val) for val in release_date.split("-")], then the datetime of them *)
parse_release_date(s) ==
    LET parts == split(s, "-")
        ints == [i \in 1..Len(parts) |-> int(parts[i])]
    IN IF \E i \in 1..Len(parts) : ~ints[i].ok
       THEN datetime(<<>>)
       ELSE datetime([i \in 1..Len(parts) |-> ints[i].value])

RECURSIVE zero_padded(_, _)
zero_padded(n, width) ==
    IF width = 0 THEN <<>>
    ELSE zero_padded(n \div 10, width - 1) \o <<Digits[(n % 10) + 1]>>

(* Movie.format(): release_date rendered as YYYY-MM-DD *)
format_date(d) ==
    zero_padded(d.year, 4) \o <<"-">> \o zero_padded(d.month, 2)
        \o <<"-">> \o zero_padded(d.day, 2)

----------------------------------------------------------------------------
(* Credentials and the guard (auth.py).                                     *)

Capabilities ==
    {"get:actor", "get:movie", "post:actor", "post:movie",
     "patch:actor", "patch:movie", "delete:actor", "delete:movie"}

(* A well-formed bearer token that passes every verification step. *)
GoodToken(perms) ==
    [header |-> "bearer", kid |-> "known", signature |-> "good",
     iss |-> "trusted", aud |-> "expected", exp |-> "future",
     has_permissions |-> TRUE, permissions |-> perms]

Tokens ==
    {GoodToken(Capabilities), GoodToken({"get:actor"}), GoodToken({}),
     [GoodToken(Capabilities) EXCEPT !.kid = "unknown"],
     [GoodToken(Capabilities) EXCEPT !.signature = "bad"],
     [GoodToken(Capabilities) EXCEPT !.iss = "other"],
     [GoodToken(Capabilities) EXCEPT !.aud = "other"],
     [GoodToken(Capabilities) EXCEPT !.exp = "past"],
     [GoodToken(Capabilities) EXCEPT !.header = "missing"],
     [GoodToken({}) EXCEPT !.has_permissions = FALSE]}

AuthError(reason, capability, status_code) ==
    [status_code |-> status_code,
     error |-> [text |-> reason, capability |-> capability]]

(* verify(token): header, then key id, signature, issuer, audience, expiry *)
verify_decode_jwt(tok) ==
    IF tok.header = "missing" THEN [ok |-> FALSE, reason |-> "missing-credential"]
    ELSE IF tok.header # "bearer" THEN [ok |-> FALSE, reason |-> "malformed-credential"]
    ELSE IF tok.kid # "known" THEN [ok |-> FALSE, reason |-> "unknown-key"]
    ELSE IF tok.signature # "good" THEN [ok |-> FALSE, reason |-> "bad-signature"]
    ELSE IF tok.iss # "trusted" THEN [ok |-> FALSE, reason |-> "wrong-issuer"]
    ELSE IF tok.aud # "expected" THEN [ok |-> FALSE, reason |-> "wrong-audience"]
    ELSE IF tok.exp # "future" THEN [ok |-> FALSE, reason |-> "expired"]
    ELSE [ok |-> TRUE, reason |-> ""]

(* capabilities(claims) and require(claims, needed) *)
check_permissions(permission, tok) ==
    IF ~tok.has_permissions
    THEN [ok |-> FALSE, error |-> AuthError("malformed-claims", "", 401)]
    ELSE IF permission \notin tok.permissions
    THEN [ok |-> FALSE, error |-> AuthError("insufficient-permission", permission, 403)]
    ELSE [ok |-> TRUE, error |-> AuthError("", "", 0)]

(* The decorator: verify the credential, then check the capability; the    *)
(* wrapped handler is called only when both succeed.                       *)
requires_auth(permission, tok) ==
    LET v == verify_decode_jwt(tok)
    IN IF ~v.ok
       THEN [ok |-> FALSE, error |-> AuthError(v.reason, "", 401)]
       ELSE check_permissions(permission, tok)

(* A plausible slip: decorators copied from the list route onto the others. *)
RequiredPermission_copied ==
    [get_actors |-> "get:actor", get_movies |-> "get:movie",
     delete_actor |-> "get:actor", delete_movie |-> "get:movie",
     post_actor |-> "get:actor", post_movie |-> "get:movie",
     patch_actor |-> "get:actor", patch_movie |-> "get:movie"]

(* The argument of @requires_auth on each route. *)
RequiredPermission ==
    [get_actors |-> "get:actor", get_movies |-> "get:movie",
     delete_actor |-> "delete:actor", delete_movie |-> "delete:movie",
     post_actor |-> "post:actor", post_movie |-> "post:movie",
     patch_actor |-> "patch:actor", patch_movie |-> "patch:movie"]

----------------------------------------------------------------------------
(* Responses.                                                               *)

NoData == <<>>

Message(text) == [text |-> text, capability |-> ""]

Envelope(status, message) ==
    [status |-> status, envelope |-> TRUE, success |-> FALSE, error |-> status,
     message |-> message, data |-> NoData]

Success(data) ==
    [status |-> 200, envelope |-> FALSE, success |-> TRUE, error |-> 0,
     message |-> Message(""), data |-> data]

unprocessable == Envelope(422, Message("unprocessable"))

(* A plausible slip: the 404 handler answering with the 400 body. *)
not_found_as_bad_request == Envelope(400, Message("bad request"))

not_found == Envelope(404, Message("not found"))

bad_request == Envelope(400, Message("bad request"))

(* A plausible slip: a fixed text instead of what the error carries. *)
auth_error_fixed_message(error) == Envelope(error.status_code, Message("unauthorized"))

(* A plausible slip: a fixed status instead of the error's own. *)
auth_error_fixed_status(error) == Envelope(403, error.error)

auth_error(error) == Envelope(error.status_code, error.error)

(* An exception that no handler of the application catches: the framework's *)
(* own 500 page, which is not the application's envelope.                  *)
uncaught_exception ==
    [status |-> 500, envelope |-> FALSE, success |-> FALSE, error |-> 0,
     message |-> Message(""), data |-> NoData]

----------------------------------------------------------------------------
(* The entity store (models.py): Actor, Movie and CastedIn rows.  A store   *)
(* value S is the committed content; what a handler assigns to an entity   *)
(* before commit lives in the request's session and is visible to nobody   *)
(* else; it is dropped with the request unless commit succeeds.            *)

Store ==
    [actors |-> actors, movies |-> movies, casted |-> casted,
     actor_seq |-> actor_seq, movie_seq |-> movie_seq]

(* Entities created since Init, whose store holds one row of each kind. *)
Created == (actor_seq - 2) + (movie_seq - 2)

Without(f, k) == [i \in DOMAIN f \ {k} |-> f[i]]

RECURSIVE Ascending(_)
Ascending(ids) ==
    IF ids = {} THEN <<>>
    ELSE LET m == CHOOSE i \in ids : \A j \in ids : i <= j
         IN <<m>> \o Ascending(ids \ {m})

Actor_format(id, a) ==
    [id |-> id, name |-> a.name, age |-> a.age, gender |-> a.gender]

Movie_format(id, m) ==
    [id |-> id, title |-> m.title, release_date |-> format_date(m.release_date)]

(* insert(): add and commit; the store assigns the next id of the kind *)
Actor_insert(S, a, fault) ==
    IF fault = "write"
    THEN [raised |-> TRUE, id |-> 0, store |-> S]
    ELSE [raised |-> FALSE, id |-> S.actor_seq,
          store |-> [S EXCEPT !.actors = (S.actor_seq :> a) @@ S.actors,
                              !.actor_seq = S.actor_seq + 1]]

(* A Movie row needs both its title and its release date. *)
Movie_insert(S, m, fault) ==
    IF fault = "write" \/ DOMAIN m # {"title", "release_date"}
    THEN [raised |-> TRUE, id |-> 0, store |-> S]
    ELSE [raised |-> FALSE, id |-> S.movie_seq,
          store |-> [S EXCEPT !.movies = (S.movie_seq :> m) @@ S.movies,
                              !.movie_seq = S.movie_seq + 1]]

(* update(): commit the session's changes to the row *)
Actor_update(S, id, a, fault) ==
    IF fault = "write"
    THEN [raised |-> TRUE, store |-> S]
    ELSE [raised |-> FALSE, store |-> [S EXCEPT !.actors[id] = a]]

Movie_update(S, id, m, fault) ==
    IF fault = "write"
    THEN [raised |-> TRUE, store |-> S]
    ELSE [raised |-> FALSE, store |-> [S EXCEPT !.movies[id] = m]]

(* delete(): remove the row and, in the same commit, its casting links *)
Actor_delete(S, id, fault) ==
    IF fault = "write"
    THEN [raised |-> TRUE, store |-> S]
    ELSE [raised |-> FALSE,
          store |-> [S EXCEPT !.actors = Without(S.actors, id),
                              !.casted = {l \in S.casted : l[1] # id}]]

Movie_delete(S, id, fault) ==
    IF fault = "write"
    THEN [raised |-> TRUE, store |-> S]
    ELSE [raised |-> FALSE,
          store |-> [S EXCEPT !.movies = Without(S.movies, id),
                              !.casted = {l \in S.casted : l[2] # id}]]

(* obj.casted_in of an actor and obj.casted of a movie, in id order *)
Actor_casted_in(S, id) == Ascending({l[2] : l \in {c \in S.casted : c[1] = id}})

Movie_casted(S, id) == Ascending({l[1] : l \in {c \in S.casted : c[2] = id}})

----------------------------------------------------------------------------
(* Request inputs.                                                          *)

EmptyBody == [k \in {} |-> 0]

Date_2021_12_31 == <<"2", "0", "2", "1", "-", "1", "2", "-", "3", "1">>
Date_2020_02_03 == <<"2", "0", "2", "0", "-", "0", "2", "-", "0", "3">>
Date_2021_02_30 == <<"2", "0", "2", "1", "-", "0", "2", "-", "3", "0">>
Date_2021_1x_01 == <<"2", "0", "2", "1", "-", "1", "x", "-", "0", "1">>

FullActorBody == [name |-> "Bob", age |-> 40, gender |-> "M"]

ActorBodies ==
    {EmptyBody, [name |-> "Bob"], [id |-> 9, age |-> 40], FullActorBody}

FullMovieBody == [title |-> "Heat", release_date |-> Date_2020_02_03]

MovieBodies ==
    {EmptyBody, [id |-> 9, title |-> "Heat"], FullMovieBody,
     [title |-> "Heat", release_date |-> Date_2021_02_30],
     [release_date |-> Date_2021_1x_01]}

Faults == {"none", "query", "write"}

(* Ids a request may name: those assigned so far and the next, unassigned. *)
DeleteArgs(seq) == [id : 1..seq, fault : Faults]

(* A store failure is injected into the request with the full payload. *)
PostArgs(bodies, full) ==
    {a \in [body : bodies, fault : {"none", "write"}] :
        a.fault = "none" \/ a.body = full}

PatchArgs(seq, bodies, full) ==
    {a \in [id : 1..seq, body : bodies, fault : Faults] :
        a.fault = "none" \/ a.body = full}

----------------------------------------------------------------------------
(* Handler bodies.  Each yields the response, the committed store after    *)
(* the request and whether the store was read or written.  fault names a   *)
(* store failure of this request: "query" (a query raises), "write" (the   *)
(* commit raises) or "none".                                               *)

Outcome(response, S, touched) ==
    [resp |-> response, store |-> S, accessed |-> touched]

(* for obj in Actor.query.all(): format() plus the titles of its movies *)
actor_entry(S, id) ==
    LET mids == Actor_casted_in(S, id)
    IN ("movies" :> [i \in 1..Len(mids) |-> S.movies[mids[i]].title])
           @@ Actor_format(id, S.actors[id])

get_actors_handler(S, fault) ==
    IF fault = "query"
    THEN Outcome(uncaught_exception, S, TRUE)
    ELSE LET ids == Ascending(DOMAIN S.actors)
         IN Outcome(Success([i \in 1..Len(ids) |-> actor_entry(S, ids[i])]), S, TRUE)

(* A plausible slip: the names of every actor instead of the cast. *)
movie_entry_all_actors(S, id) ==
    LET aids == Ascending(DOMAIN S.actors)
    IN ("actors" :> [i \in 1..Len(aids) |-> S.actors[aids[i]].name])
           @@ Movie_format(id, S.movies[id])

(* for obj in Movie.query.all(): format() plus the names of its actors *)
movie_entry(S, id) ==
    LET aids == Movie_casted(S, id)
    IN ("actors" :> [i \in 1..Len(aids) |-> S.actors[aids[i]].name])
           @@ Movie_format(id, S.movies[id])

get_movies_handler(S, fault) ==
    IF fault = "query"
    THEN Outcome(uncaught_exception, S, TRUE)
    ELSE LET ids == Ascending(DOMAIN S.movies)
         IN Outcome(Success([i \in 1..Len(ids) |-> movie_entry(S, ids[i])]), S, TRUE)

delete_actor_handler(S, id, fault) ==
    IF fault = "query" THEN Outcome(uncaught_exception, S, TRUE)
    ELSE IF id \notin DOMAIN S.actors THEN Outcome(not_found, S, TRUE)
    ELSE LET r == Actor_delete(S, id, fault)
         IN IF r.raised
            THEN Outcome(unprocessable, S, TRUE)
            ELSE Outcome(Success(id), r.store, TRUE)

delete_movie_handler(S, id, fault) ==
    IF fault = "query" THEN Outcome(uncaught_exception, S, TRUE)
    ELSE IF id \notin DOMAIN S.movies THEN Outcome(not_found, S, TRUE)
    ELSE LET r == Movie_delete(S, id, fault)
         IN IF r.raised
            THEN Outcome(unprocessable, S, TRUE)
            ELSE Outcome(Success(id), r.store, TRUE)

(* name, age and gender are bound only when their key is present; the     *)
(* constructor call raises inside the try when one of them is not.        *)
post_actor_handler(S, body, fault) ==
    IF DOMAIN body = {} THEN Outcome(bad_request, S, FALSE)
    ELSE IF ~({"name", "age", "gender"} \subseteq DOMAIN body)
    THEN Outcome(unprocessable, S, FALSE)
    ELSE LET new_actor == [name |-> body.name, age |-> body.age,
                           gender |-> body.gender]
             r == Actor_insert(S, new_actor, fault)
         IN IF r.raised
            THEN Outcome(unprocessable, S, TRUE)
            ELSE Outcome(Success(Actor_format(r.id, new_actor)), r.store, TRUE)

(* The attributes the try block sets on a Movie before insert or update:  *)
(* title when present, then release_date when present and parseable.      *)
movie_assign(movie, body) ==
    LET m1 == IF "title" \in DOMAIN body
              THEN ("title" :> body.title) @@ movie ELSE movie
    IN IF "release_date" \notin DOMAIN body
       THEN [raised |-> FALSE, movie |-> m1]
       ELSE LET d == parse_release_date(body.release_date)
            IN IF d.ok
               THEN [raised |-> FALSE,
                     movie |-> ("release_date" :> d.value) @@ m1]
               ELSE [raised |-> TRUE, movie |-> m1]

post_movie_handler(S, body, fault) ==
    IF DOMAIN body = {} THEN Outcome(bad_request, S, FALSE)
    ELSE LET a == movie_assign(EmptyBody, body)
         IN IF a.raised THEN Outcome(unprocessable, S, FALSE)
            ELSE LET r == Movie_insert(S, a.movie, fault)
                 IN IF r.raised
                    THEN Outcome(unprocessable, S, TRUE)
                    ELSE Outcome(Success(Movie_format(r.id, a.movie)), r.store, TRUE)

(* A plausible slip: every column written, the absent ones blanked. *)
actor_assign_overwrite(actor, body) ==
    [name |-> IF "name" \in DOMAIN body THEN body.name ELSE "",
     age |-> IF "age" \in DOMAIN body THEN body.age ELSE 0,
     gender |-> IF "gender" \in DOMAIN body THEN body.gender ELSE ""]

(* if "name" in request.json: actor.name = ...; likewise age and gender *)
actor_assign(actor, body) ==
    [name |-> IF "name" \in DOMAIN body THEN body.name ELSE actor.name,
     age |-> IF "age" \in DOMAIN body THEN body.age ELSE actor.age,
     gender |-> IF "gender" \in DOMAIN body THEN body.gender ELSE actor.gender]

patch_actor_handler(S, id, body, fault) ==
    IF DOMAIN body = {} THEN Outcome(bad_request, S, FALSE)
    ELSE IF fault = "query" THEN Outcome(uncaught_exception, S, TRUE)
    ELSE IF id \notin DOMAIN S.actors THEN Outcome(not_found, S, TRUE)
    ELSE LET a == actor_assign(S.actors[id], body)
             r == Actor_update(S, id, a, fault)
         IN IF r.raised
            THEN Outcome(unprocessable, S, TRUE)
            ELSE Outcome(Success(Actor_format(id, a)), r.store, TRUE)

(* A plausible slip: the except branch saving what was assigned so far. *)
patch_movie_try_saving(S, id, body, fault) ==
    LET a == movie_assign(S.movies[id], body)
    IN IF a.raised
       THEN Outcome(unprocessable, Movie_update(S, id, a.movie, "none").store, TRUE)
       ELSE LET r == Movie_update(S, id, a.movie, fault)
            IN IF r.raised
               THEN Outcome(unprocessable, S, TRUE)
               ELSE Outcome(Success(Movie_format(id, a.movie)), r.store, TRUE)

(* The try block of patch_movie and its except branch. *)
patch_movie_try(S, id, body, fault) ==
    LET a == movie_assign(S.movies[id], body)
    IN IF a.raised
       THEN Outcome(unprocessable, S, TRUE)
       ELSE LET r == Movie_update(S, id, a.movie, fault)
            IN IF r.raised
               THEN Outcome(unprocessable, S, TRUE)
               ELSE Outcome(Success(Movie_format(id, a.movie)), r.store, TRUE)

patch_movie_handler(S, id, body, fault) ==
    IF DOMAIN body = {} THEN Outcome(bad_request, S, FALSE)
    ELSE IF fault = "query" THEN Outcome(uncaught_exception, S, TRUE)
    ELSE IF id \notin DOMAIN S.movies THEN Outcome(not_found, S, TRUE)
    ELSE patch_movie_try(S, id, body, fault)

----------------------------------------------------------------------------
(* Requests.                                                                *)

(* The guard refused: auth_error answers, the handler body never runs. *)
Reject(op, tok, error) ==
    /\ req' = [op |-> op, token |-> tok, id |-> 0, body |-> EmptyBody,
               fault |-> "none"]
    /\ resp' = auth_error(error)
    /\ prev' = Store
    /\ entered' = FALSE
    /\ accessed' = FALSE
    /\ UNCHANGED <<actors, movies, casted, actor_seq, movie_seq>>

(* The guard passed: the handler body ran with these arguments. *)
Serve(op, tok, id, body, fault, out) ==
    /\ req' = [op |-> op, token |-> tok, id |-> id, body |-> body,
               fault |-> fault]
    /\ resp' = out.resp
    /\ prev' = Store
    /\ entered' = TRUE
    /\ accessed' = out.accessed
    /\ actors' = out.store.actors
    /\ movies' = out.store.movies
    /\ casted' = out.store.casted
    /\ actor_seq' = out.store.actor_seq
    /\ movie_seq' = out.store.movie_seq

get_actors ==
    \E tok \in Tokens :
        LET auth == requires_auth(RequiredPermission.get_actors, tok)
        IN IF ~auth.ok
           THEN Reject("get_actors", tok, auth.error)
           ELSE \E fault \in {"none", "query"} :
                    Serve("get_actors", tok, 0, EmptyBody, fault,
                          get_actors_handler(Store, fault))

get_movies ==
    \E tok \in Tokens :
        LET auth == requires_auth(RequiredPermission.get_movies, tok)
        IN IF ~auth.ok
           THEN Reject("get_movies", tok, auth.error)
           ELSE \E fault \in {"none", "query"} :
                    Serve("get_movies", tok, 0, EmptyBody, fault,
                          get_movies_handler(Store, fault))

delete_actor ==
    \E tok \in Tokens :
        LET auth == requires_auth(RequiredPermission.delete_actor, tok)
        IN IF ~auth.ok
           THEN Reject("delete_actor", tok, auth.error)
           ELSE \E a \in DeleteArgs(actor_seq) :
                    Serve("delete_actor", tok, a.id, EmptyBody, a.fault,
                          delete_actor_handler(Store, a.id, a.fault))

delete_movie ==
    \E tok \in Tokens :
        LET auth == requires_auth(RequiredPermission.delete_movie, tok)
        IN IF ~auth.ok
           THEN Reject("delete_movie", tok, auth.error)
           ELSE \E a \in DeleteArgs(movie_seq) :
                    Serve("delete_movie", tok, a.id, EmptyBody, a.fault,
                          delete_movie_handler(Store, a.id, a.fault))

post_actor ==
    /\ Created < MaxCreated
    /\ \E tok \in Tokens :
        LET auth == requires_auth(RequiredPermission.post_actor, tok)
        IN IF ~auth.ok
           THEN Reject("post_actor", tok, auth.error)
           ELSE \E a \in PostArgs(ActorBodies, FullActorBody) :
                    Serve("post_actor", tok, 0, a.body, a.fault,
                          post_actor_handler(Store, a.body, a.fault))

post_movie ==
    /\ Created < MaxCreated
    /\ \E tok \in Tokens :
        LET auth == requires_auth(RequiredPermission.post_movie, tok)
        IN IF ~auth.ok
           THEN Reject("post_movie", tok, auth.error)
           ELSE \E a \in PostArgs(MovieBodies, FullMovieBody) :
                    Serve("post_movie", tok, 0, a.body, a.fault,
                          post_movie_handler(Store, a.body, a.fault))

patch_actor ==
    \E tok \in Tokens :
        LET auth == requires_auth(RequiredPermission.patch_actor, tok)
        IN IF ~auth.ok
           THEN Reject("patch_actor", tok, auth.error)
           ELSE \E a \in PatchArgs(actor_seq, ActorBodies, FullActorBody) :
                    Serve("patch_actor", tok, a.id, a.body, a.fault,
                          patch_actor_handler(Store, a.id, a.body, a.fault))

patch_movie ==
    \E tok \in Tokens :
        LET auth == requires_auth(RequiredPermission.patch_movie, tok)
        IN IF ~auth.ok
           THEN Reject("patch_movie", tok, auth.error)
           ELSE \E a \in PatchArgs(movie_seq, MovieBodies, FullMovieBody) :
                    Serve("patch_movie", tok, a.id, a.body, a.fault,
                          patch_movie_handler(Store, a.id, a.body, a.fault))

(* The database as the application finds it: one actor, cast in the one   *)
(* movie; no request has been served yet.                                 *)
Init ==
    /\ actors = (1 :> [name |-> "Ann", age |-> 30, gender |-> "F"])
    /\ movies = (1 :> [title |-> "Dune",
                       release_date |-> parse_release_date(Date_2021_12_31).value])
    /\ casted = {<<1, 1>>}
    /\ actor_seq = 2
    /\ movie_seq = 2
    /\ req = [op |-> "none", token |-> GoodToken({}), id |-> 0,
              body |-> EmptyBody, fault |-> "none"]
    /\ resp = Success(NoData)
    /\ prev = [actors |-> actors, movies |-> movies, casted |-> casted,
               actor_seq |-> actor_seq, movie_seq |-> movie_seq]
    /\ entered = FALSE
    /\ accessed = FALSE

Next ==
    \/ get_actors
    \/ get_movies
    \/ delete_actor
    \/ delete_movie
    \/ post_actor
    \/ post_movie
    \/ patch_actor
    \/ patch_movie

Spec == Init /\ [][Next]_vars

----------------------------------------------------------------------------
(* Properties.                                                              *)

(* The capability table of the specification, operation by operation. *)
CapabilityTable ==
    [get_actors |-> "get:actor", get_movies |-> "get:movie",
     post_actor |-> "post:actor", post_movie |-> "post:movie",
     patch_actor |-> "patch:actor", patch_movie |-> "patch:movie",
     delete_actor |-> "delete:actor", delete_movie |-> "delete:movie"]

Operations == DOMAIN CapabilityTable

(* The credential has none of the defects verification looks for. *)
Verified(tok) == tok = GoodToken(tok.permissions)

StoreUnchanged == Store = prev

RowsUnchanged ==
    /\ actors = prev.actors
    /\ movies = prev.movies
    /\ casted = prev.casted

ErrorEnvelope(status) ==
    /\ resp.status = status
    /\ resp.envelope
    /\ resp.success = FALSE
    /\ resp.error = status

(* C1: a handler body runs, and the store is read or written, only in a    *)
(* request whose credential verified and holds the one capability the      *)
(* table assigns to the operation.                                         *)
C1_GuardPrecedesHandler ==
    (entered \/ accessed) =>
        /\ req.op \in Operations
        /\ Verified(req.token)
        /\ CapabilityTable[req.op] \in req.token.permissions

C1_Witness ==
    /\ req.op = "delete_actor"
    /\ entered /\ accessed
    /\ resp.status = 200
    /\ req.id \in DOMAIN prev.actors /\ req.id \notin DOMAIN actors

(* C2: a verified credential without the operation's capability is         *)
(* answered 403 in the error envelope, the message naming the missing      *)
(* capability, and the store is as it was before the request.              *)
C2_MissingCapabilityIs403 ==
    (/\ req.op \in Operations
     /\ Verified(req.token)
     /\ CapabilityTable[req.op] \notin req.token.permissions) =>
        /\ ErrorEnvelope(403)
        /\ resp.message.capability = CapabilityTable[req.op]
        /\ ~entered /\ ~accessed
        /\ StoreUnchanged

C2_Witness ==
    /\ req.op = "delete_actor"
    /\ req.token = GoodToken({"get:actor"})
    /\ resp.status = 403
    /\ resp.message.capability = "delete:actor"
    /\ 1 \in DOMAIN actors

(* The reason verification gives for a token with exactly one defect. *)
SingleDefects ==
    {[token |-> [GoodToken(Capabilities) EXCEPT !.kid = "unknown"],
      reason |-> "unknown-key"],
     [token |-> [GoodToken(Capabilities) EXCEPT !.signature = "bad"],
      reason |-> "bad-signature"],
     [token |-> [GoodToken(Capabilities) EXCEPT !.iss = "other"],
      reason |-> "wrong-issuer"],
     [token |-> [GoodToken(Capabilities) EXCEPT !.aud = "other"],
      reason |-> "wrong-audience"],
     [token |-> [GoodToken(Capabilities) EXCEPT !.exp = "past"],
      reason |-> "expired"]}

(* C3: a token with a bad signature, a wrong issuer, a wrong audience, an  *)
(* expiry in the past or an unknown key id fails verification with the     *)
(* reason of that defect, the request is answered 401, and the store is    *)
(* neither read nor written.                                               *)
C3_DefectiveTokenIs401 ==
    /\ \A d \in SingleDefects :
           (req.op \in Operations /\ req.token = d.token) =>
               /\ ErrorEnvelope(401)
               /\ resp.message.text = d.reason
    /\ (req.op \in Operations /\ ~Verified(req.token)) =>
           /\ ErrorEnvelope(401)
           /\ ~entered /\ ~accessed
           /\ StoreUnchanged

C3_Witness ==
    /\ req.op = "post_movie"
    /\ req.token.exp = "past"
    /\ resp.status = 401
    /\ resp.message.text = "expired"

(* C4: a successful update leaves every field absent from the payload as   *)
(* it was, keeps the entity under its id whatever id the payload names,    *)
(* and leaves every other actor, movie and casting link as it was.         *)
C4_PartialUpdateFrame ==
    /\ (req.op = "patch_actor" /\ resp.status = 200) =>
          /\ req.id \in DOMAIN prev.actors
          /\ DOMAIN actors = DOMAIN prev.actors
          /\ resp.data.id = req.id
          /\ \A f \in {"name", "age", "gender"} \ DOMAIN req.body :
                 actors[req.id][f] = prev.actors[req.id][f]
          /\ \A i \in DOMAIN actors \ {req.id} : actors[i] = prev.actors[i]
          /\ movies = prev.movies /\ casted = prev.casted
    /\ (req.op = "patch_movie" /\ resp.status = 200) =>
          /\ req.id \in DOMAIN prev.movies
          /\ DOMAIN movies = DOMAIN prev.movies
          /\ resp.data.id = req.id
          /\ \A f \in {"title", "release_date"} \ DOMAIN req.body :
                 movies[req.id][f] = prev.movies[req.id][f]
          /\ \A i \in DOMAIN movies \ {req.id} : movies[i] = prev.movies[i]
          /\ actors = prev.actors /\ casted = prev.casted

C4_Witness ==
    /\ req.op = "patch_actor"
    /\ resp.status = 200
    /\ "id" \in DOMAIN req.body
    /\ req.body.id # req.id
    /\ actors[req.id].age # prev.actors[req.id].age
    /\ actors[req.id].name = prev.actors[req.id].name

(* The names a listing of movie mid may show: one per existing actor cast *)
(* in it, and nothing else.                                               *)
ShowsCastOf(names, mid) ==
    /\ Len(names) = Cardinality({a \in DOMAIN actors : <<a, mid>> \in casted})
    /\ \A j \in 1..Len(names) :
           \E a \in DOMAIN actors :
               <<a, mid>> \in casted /\ actors[a].name = names[j]

ShowsMoviesOf(titles, aid) ==
    /\ Len(titles) = Cardinality({m \in DOMAIN movies : <<aid, m>> \in casted})
    /\ \A j \in 1..Len(titles) :
           \E m \in DOMAIN movies :
               <<aid, m>> \in casted /\ movies[m].title = titles[j]

(* C5: every casting link joins an actor and a movie that both exist; a    *)
(* successful delete leaves no link of the deleted entity; and a listing   *)
(* shows, for each entity, the names or titles of the existing entities    *)
(* cast with it and no others.                                             *)
C5_NoDanglingLinks ==
    /\ \A l \in casted : l[1] \in DOMAIN actors /\ l[2] \in DOMAIN movies
    /\ (req.op = "delete_actor" /\ resp.status = 200) =>
           /\ req.id \notin DOMAIN actors
           /\ casted = {l \in prev.casted : l[1] # req.id}
    /\ (req.op = "delete_movie" /\ resp.status = 200) =>
           /\ req.id \notin DOMAIN movies
           /\ casted = {l \in prev.casted : l[2] # req.id}
    /\ (req.op = "get_movies" /\ resp.status = 200) =>
           /\ Len(resp.data) = Cardinality(DOMAIN movies)
           /\ \A i \in 1..Len(resp.data) :
                  /\ resp.data[i].id \in DOMAIN movies
                  /\ ShowsCastOf(resp.data[i].actors, resp.data[i].id)
    /\ (req.op = "get_actors" /\ resp.status = 200) =>
           /\ Len(resp.data) = Cardinality(DOMAIN actors)
           /\ \A i \in 1..Len(resp.data) :
                  /\ resp.data[i].id \in DOMAIN actors
                  /\ ShowsMoviesOf(resp.data[i].movies, resp.data[i].id)

(* The movie of the initial store listed after its one actor was deleted. *)
C5_Witness ==
    /\ req.op = "get_movies"
    /\ resp.status = 200
    /\ 1 \notin DOMAIN actors
    /\ DOMAIN actors # {}
    /\ 1 \in DOMAIN movies
    /\ resp.data[1].id = 1
    /\ resp.data[1].actors = <<>>
    /\ casted = {}

UpdateOrDelete ==
    {"patch_actor", "patch_movie", "delete_actor", "delete_movie"}

(* The rows of the kind the request is about, before the request. *)
PrevRowsOfKind ==
    IF req.op \in {"patch_actor", "delete_actor"} THEN prev.actors ELSE prev.movies

(* C6 as claimed: an update or delete that passes the guard and names an   *)
(* id with no entity behind it is answered 404, whatever the body, and     *)
(* the store is unchanged.  Stated for requests in which the store does    *)
(* not fail.                                                               *)
C6_UnknownIdIsAlways404 ==
    (/\ req.op \in UpdateOrDelete
     /\ entered
     /\ req.fault = "none"
     /\ req.id \notin DOMAIN PrevRowsOfKind) =>
        /\ ErrorEnvelope(404)
        /\ StoreUnchanged

(* C6 amended: a delete, or an update with a non-empty body, that passes   *)
(* the guard and whose lookup finds no entity under the id is answered     *)
(* 404 with the store unchanged; an update with an empty body is answered  *)
(* 400 before the id is looked up, the store unchanged.                    *)
C6_UnknownIdIs404UnlessEmptyBody ==
    /\ (/\ req.op \in UpdateOrDelete
        /\ entered
        /\ req.fault # "query"
        /\ req.id \notin DOMAIN PrevRowsOfKind
        /\ (req.op \in {"patch_actor", "patch_movie"} => DOMAIN req.body # {})) =>
           /\ ErrorEnvelope(404)
           /\ resp.message.text = "not found"
           /\ StoreUnchanged
    /\ (/\ req.op \in {"patch_actor", "patch_movie"}
        /\ entered
        /\ DOMAIN req.body = {}) =>
           /\ ErrorEnvelope(400)
           /\ ~accessed
           /\ StoreUnchanged

C6_Witness ==
    /\ req.op = "patch_movie"
    /\ entered
    /\ req.id \notin DOMAIN prev.movies
    /\ DOMAIN req.body # {}
    /\ resp.status = 404

(* The payload of a create lacks a required field or carries a release     *)
(* date that does not parse to a calendar date.                            *)
InvalidCreatePayload ==
    \/ /\ req.op = "post_actor"
       /\ ~({"name", "age", "gender"} \subseteq DOMAIN req.body)
    \/ /\ req.op = "post_movie"
       /\ \/ ~({"title", "release_date"} \subseteq DOMAIN req.body)
          \/ ~parse_release_date(req.body.release_date).ok

(* C7: a create that passes the guard with an invalid payload is answered  *)
(* 400 and adds no entity.                                                 *)
C7_InvalidCreateIs400 ==
    (entered /\ InvalidCreatePayload) =>
        /\ ErrorEnvelope(400)
        /\ RowsUnchanged

(* An actor or movie listing taken right after the last request. *)
ActorListing == get_actors_handler(Store, "none").resp.data

MovieListing == get_movies_handler(Store, "none").resp.data

DistinctIds(listing) ==
    \A i, j \in 1..Len(listing) : listing[i].id = listing[j].id => i = j

(* C8: after a successful create the listing of the kind holds exactly one *)
(* more entity, whose fields are those of the payload (the release date    *)
(* as the same YYYY-MM-DD text) under an id never assigned before, the     *)
(* earlier entities are as they were, and no listing shows an id twice.    *)
C8_CreateThenList ==
    /\ DistinctIds(ActorListing) /\ DistinctIds(MovieListing)
    /\ Len(ActorListing) = Cardinality(DOMAIN actors)
    /\ Len(MovieListing) = Cardinality(DOMAIN movies)
    /\ (req.op = "post_actor" /\ resp.status = 200) =>
          /\ Len(ActorListing) = Cardinality(DOMAIN prev.actors) + 1
          /\ \A i \in DOMAIN prev.actors : actors[i] = prev.actors[i]
          /\ \E i \in 1..Len(ActorListing) :
                 /\ ActorListing[i].id = resp.data.id
                 /\ ActorListing[i].id >= prev.actor_seq
                 /\ ActorListing[i].id \notin DOMAIN prev.actors
                 /\ ActorListing[i].name = req.body.name
                 /\ ActorListing[i].age = req.body.age
                 /\ ActorListing[i].gender = req.body.gender
    /\ (req.op = "post_movie" /\ resp.status = 200) =>
          /\ Len(MovieListing) = Cardinality(DOMAIN prev.movies) + 1
          /\ \A i \in DOMAIN prev.movies : movies[i] = prev.movies[i]
          /\ \E i \in 1..Len(MovieListing) :
                 /\ MovieListing[i].id = resp.data.id
                 /\ MovieListing[i].id >= prev.movie_seq
                 /\ MovieListing[i].id \notin DOMAIN prev.movies
                 /\ MovieListing[i].title = req.body.title
                 /\ MovieListing[i].release_date = req.body.release_date

(* A movie created after the movie of the initial store was deleted. *)
C8_Witness ==
    /\ req.op = "post_movie"
    /\ resp.status = 200
    /\ req.body.release_date = Date_2020_02_03
    /\ DOMAIN movies = {2}
    /\ MovieListing[1].release_date = Date_2020_02_03

(* A store call of the request raised. *)
StoreFailureRaised ==
    /\ entered
    /\ accessed
    /\ \/ req.fault = "query"
       \/ req.fault = "write" /\ resp.status # 404

(* C9: a store failure raised while a handler runs is answered 422 in the  *)
(* error envelope; none escapes the handler.                               *)
C9_StoreFailureIs422 ==
    StoreFailureRaised =>
        /\ ErrorEnvelope(422)
        /\ resp.message.text = "unprocessable"

Mutations ==
    {"post_actor", "post_movie", "patch_actor", "patch_movie",
     "delete_actor", "delete_movie"}

(* C10: a create, update or delete answered 400, 404 or 422 leaves the     *)
(* actors, movies and casting links exactly as they were before it.        *)
C10_FailureChangesNothing ==
    (req.op \in Mutations /\ resp.status \in {400, 404, 422}) => RowsUnchanged

(* A title assigned before the release date of the same payload failed. *)
C10_Witness ==
    /\ req.op = "patch_movie"
    /\ req.body = [title |-> "Heat", release_date |-> Date_2021_02_30]
    /\ req.id \in DOMAIN movies
    /\ movies[req.id].title = "Dune"
    /\ resp.status = 422

====
